---- MODULE Spec2Model ----
(***************************************************************************)
(* A model of the X-ray quadtree generator (xray/src/generation.rs):       *)
(*   - get_nodes_at_level             (specification SpecNodes)            *)
(*   - find_quadtree_bounding_rect_and_levels (specification SpecPlan)     *)
(*   - build_parent                   (specification SpecParent)           *)
(*   - xray_from_points for one leaf  (specification SpecRaster)           *)
(*   - xray_from_points twice over one point sequence, batched in two      *)
(*     ways                           (specification SpecSplit)            *)
(*   - build_xray_quadtree            (specification SpecBuild)            *)
(* Each part is a state machine of its own over its own variables; the     *)
(* variables of the other parts stay at their idle values.                 *)
(***************************************************************************)
EXTENDS Integers, Sequences, FiniteSets, TLC

VARIABLES
    \* get_nodes_at_level
    root_node, level, nodes_to_traverse, nodes_at_level, pcNodes,
    \* find_quadtree_bounding_rect_and_levels
    bbox, tile_size_px, pixel_size_m, overflow_checks, cur_size, levels,
    planned, pcPlan,
    \* build_parent
    children, tile_background_color, large_image, pcParent,
    \* xray_from_points and the leaf task of create_leaf_nodes
    coloring_strategy_kind, leaf_id, tile_bbox, image_size,
    coloring_strategy, seen_any_points, batches_delivered, points_batch,
    discretized_locations, idx, image, files, created_leaf_node_ids,
    task_result, pcRaster,
    \* two rasterizations of one point sequence, batched independently
    split_kind, split_bbox, source_points, runs,
    \* build_xray_quadtree and the tasks of its phases
    parameters, deepest_level, point_cloud, output_directory, leaf_nodes,
    tasks, phase_err, created_leaf_node_ids_rx, current_level,
    current_level_nodes, all_nodes, point_queries, pcBuild

varsNodes == <<root_node, level, nodes_to_traverse, nodes_at_level, pcNodes>>
varsPlan  == <<bbox, tile_size_px, pixel_size_m, overflow_checks, cur_size,
               levels, planned, pcPlan>>
varsParent == <<children, tile_background_color, large_image, pcParent>>
varsRaster == <<coloring_strategy_kind, leaf_id, tile_bbox, image_size,
                coloring_strategy, seen_any_points, batches_delivered,
                points_batch, discretized_locations, idx, image, files,
                created_leaf_node_ids, task_result, pcRaster>>
varsSplit == <<split_kind, split_bbox, source_points, runs>>
varsBuild == <<parameters, deepest_level, point_cloud, output_directory,
               leaf_nodes, tasks, phase_err, created_leaf_node_ids_rx,
               current_level, current_level_nodes, all_nodes, point_queries,
               pcBuild>>
vars == <<varsNodes, varsPlan, varsParent, varsRaster, varsSplit, varsBuild>>

\* What each part leaves alone.
notNodes  == <<varsPlan, varsParent, varsRaster, varsSplit, varsBuild>>
notPlan   == <<varsNodes, varsParent, varsRaster, varsSplit, varsBuild>>
notParent == <<varsNodes, varsPlan, varsRaster, varsSplit, varsBuild>>
notRaster == <<varsNodes, varsPlan, varsParent, varsSplit, varsBuild>>
notSplit  == <<varsNodes, varsPlan, varsParent, varsRaster, varsBuild>>
notBuild  == <<varsNodes, varsPlan, varsParent, varsRaster, varsSplit>>

----------------------------------------------------------------------------
(* Bounds of the model.                                                    *)

\* Deepest quadtree level enumerated by get_nodes_at_level.
MaxLevel == 2
\* Largest binary exponent of a bounding box edge length.
MaxDiagExp == 3
\* Binary exponent (negated) of the smallest pixel size tried: small enough
\* for the planner to need more than 255 doublings.
TinyExp == 260
\* Largest width and height of a child tile handed to build_parent.
MaxChildPx == 2
\* Number of distinct opaque pixel values used to paint the tiles.
NumColors == 4
\* Number of batches the point source yields for one leaf, at most.
MaxBatches == 2
\* Number of points in an ordinary batch, at most.
MaxBatchLen == 2
\* Width and height of a leaf tile in pixels.
TilePx == 4
\* Number of points in a sequence that is rasterized in two batch splits,
\* at most.
MaxSplitPoints == 3
\* Number of threads that run the tasks of a parallel phase.
MaxWorkers == 2
\* Number of leaves the point cloud has points in, at most.
MaxOccupied == 2
\* Width and height of a tile of the pyramid build in pixels.
BuildTilePx == 1

----------------------------------------------------------------------------
(* Generic helpers.                                                        *)

RECURSIVE Pow(_, _)
Pow(b, n) == IF n = 0 THEN 1 ELSE b * Pow(b, n - 1)

Max(a, b) == IF a >= b THEN a ELSE b

IsPrefix(s, t) == Len(s) <= Len(t) /\ SubSeq(t, 1, Len(s)) = s

Range(s) == {s[i] : i \in 1..Len(s)}

RECURSIVE SeqsUpTo(_, _)
\* All sequences over S of length at most n.
SeqsUpTo(S, n) ==
    IF n = 0 THEN {<<>>}
    ELSE LET shorter == SeqsUpTo(S, n - 1)
         IN  shorter \cup {Append(s, x) : s \in shorter, x \in S}

----------------------------------------------------------------------------
(* Quadtree nodes.  A NodeId is the path of child indices from the root of *)
(* the whole quadtree; its level is the length of the path.                *)

ChildIndices == 0..3

NodeIdLevel(id) == Len(id)

GetChildId(id, i) == Append(id, i)

ParentId(id) == IF Len(id) = 0 THEN <<>> ELSE SubSeq(id, 1, Len(id) - 1)

MkNode(id) == [id |-> id]

NodeLevel(node) == NodeIdLevel(node.id)

NodeGetChild(node, i) == MkNode(GetChildId(node.id, i))

----------------------------------------------------------------------------
(* get_nodes_at_level: depth-first traversal with an explicit stack.       *)

\* A traversal that forgets the last child index.
ChildrenToPushDropLast(node) == [i \in 1..3 |-> NodeGetChild(node, i - 1)]

\* The nodes pushed for a node above the wanted level, in push order.
ChildrenToPush(node) == [i \in 1..4 |-> NodeGetChild(node, i - 1)]

IdleNodes ==
    /\ root_node = MkNode(<<>>)
    /\ level = 0
    /\ nodes_to_traverse = <<>>
    /\ nodes_at_level = <<>>
    /\ pcNodes = "idle"

\* The state after nodes_to_traverse.push(root_node.clone()).
InitNodes ==
    /\ root_node \in {MkNode(id) : id \in SeqsUpTo(ChildIndices, MaxLevel)}
    /\ level \in NodeLevel(root_node)..MaxLevel
    /\ nodes_to_traverse = <<root_node>>
    /\ nodes_at_level = <<>>
    /\ pcNodes = "traverse"

\* One iteration of `while let Some(node) = nodes_to_traverse.pop()`,
\* for a node at the wanted level.
EmitNode ==
    /\ pcNodes = "traverse"
    /\ nodes_to_traverse # <<>>
    /\ LET n    == Len(nodes_to_traverse)
           node == nodes_to_traverse[n]
       IN  /\ NodeLevel(node) = level
           /\ nodes_at_level' = Append(nodes_at_level, node)
           /\ nodes_to_traverse' = SubSeq(nodes_to_traverse, 1, n - 1)
    /\ UNCHANGED <<root_node, level, pcNodes>>
    /\ UNCHANGED notNodes

\* One iteration of the loop for a node that is not at the wanted level.
ExpandNode ==
    /\ pcNodes = "traverse"
    /\ nodes_to_traverse # <<>>
    /\ LET n    == Len(nodes_to_traverse)
           node == nodes_to_traverse[n]
       IN  /\ NodeLevel(node) # level
           /\ nodes_to_traverse' =
                  SubSeq(nodes_to_traverse, 1, n - 1) \o ChildrenToPush(node)
    /\ UNCHANGED <<root_node, level, nodes_at_level, pcNodes>>
    /\ UNCHANGED notNodes

\* pop() returns None: the function returns nodes_at_level.
ReturnNodes ==
    /\ pcNodes = "traverse"
    /\ nodes_to_traverse = <<>>
    /\ pcNodes' = "done"
    /\ UNCHANGED <<root_node, level, nodes_to_traverse, nodes_at_level>>
    /\ UNCHANGED notNodes

----------------------------------------------------------------------------
(* Binary floating point.  A positive value is a record [e, m] standing    *)
(* for m * 2^e with a normalized mantissa MantLo <= m <= MantHi; zero is   *)
(* [e |-> 0, m |-> 0].  Comparison, doubling and rounded multiplication    *)
(* behave as they do on f64, with a shorter mantissa.                      *)

MantLo == 4
MantHi == 7

FZero == [e |-> 0, m |-> 0]

F(e, m) == [e |-> e, m |-> m]

\* a < b on non-negative values.
FLt(a, b) ==
    IF b.m = 0 THEN FALSE
    ELSE IF a.m = 0 THEN TRUE
    ELSE a.e < b.e \/ (a.e = b.e /\ a.m < b.m)

FLe(a, b) == ~FLt(b, a)

\* a * 2, exact.
FDouble(a) == IF a.m = 0 THEN a ELSE F(a.e + 1, a.m)

\* a * 2^k, exact.
FScale(a, k) == IF a.m = 0 THEN a ELSE F(a.e + k, a.m)

\* n / 2^s rounded to the nearest integer, ties to even.
RoundShift(n, s) ==
    LET d == Pow(2, s)
        q == n \div d
        r == n % d
    IN  IF 2 * r > d \/ (2 * r = d /\ q % 2 = 1) THEN q + 1 ELSE q

\* The product of two positive values, rounded to the mantissa width.
FMul(a, b) ==
    LET prod == a.m * b.m
        s    == IF prod >= 2 * MantLo * (MantHi + 1) THEN 3 ELSE 2
        q    == RoundShift(prod, s)
    IN  IF q > MantHi THEN F(a.e + b.e + s + 1, MantLo)
        ELSE F(a.e + b.e + s, q)

\* f64::from(u32) for the tile sizes used here, all exactly representable.
FFromU32(n) ==
    CASE n = 1 -> F(-2, 4)
      [] n = 2 -> F(-1, 4)
      [] n = 3 -> F(-1, 6)
      [] n = 4 -> F(0, 4)
      [] n = 5 -> F(0, 5)
      [] n = 6 -> F(0, 6)
      [] n = 7 -> F(0, 7)
      [] OTHER -> F(1, 4)

----------------------------------------------------------------------------
(* find_quadtree_bounding_rect_and_levels.                                 *)

\* The width of the level counter (u8).
U8Modulus == 256

\* A comparison that looks at the x edge only.
NeedsDoublingXOnly(cur, d) == FLt(cur, d.x)

\* The loop condition: cur_size < diag.x || cur_size < diag.y.
NeedsDoubling(cur, d) == FLt(cur, d.x) \/ FLt(cur, d.y)

TileSizeM(px, pixel_m) == FMul(FFromU32(px), pixel_m)

DiagValues ==
    {FZero} \cup {F(e, m) : e \in 0..MaxDiagExp, m \in {MantLo, MantLo + 2}}

PixelSizes ==
    {F(e, m) : e \in {-2, -TinyExp}, m \in {MantLo, MantLo + 1, MantHi}}

IdlePlan ==
    /\ bbox = [min |-> [x |-> 0, y |-> 0], diag |-> [x |-> FZero, y |-> FZero]]
    /\ tile_size_px = 1
    /\ pixel_size_m = F(0, MantLo)
    /\ overflow_checks = FALSE
    /\ cur_size = FZero
    /\ levels = 0
    /\ planned = [rect |-> [min |-> [x |-> 0, y |-> 0], edge |-> FZero],
                  levels |-> 0]
    /\ pcPlan = "idle"

\* The state on entry to the loop: cur_size = tile_size_m, levels = 0.
\* overflow_checks tells whether the build traps on integer overflow
\* (debug profile) or wraps (release profile).
InitPlan ==
    /\ bbox \in [min : [x : {0, 5}, y : {0}],
                 diag : [x : DiagValues, y : DiagValues]]
    /\ tile_size_px \in {1, 3}
    /\ pixel_size_m \in PixelSizes
    /\ overflow_checks \in BOOLEAN
    /\ cur_size = TileSizeM(tile_size_px, pixel_size_m)
    /\ levels = 0
    /\ planned = [rect |-> [min |-> [x |-> 0, y |-> 0], edge |-> FZero],
                  levels |-> 0]
    /\ pcPlan = "loop"

\* One iteration of the while loop: cur_size *= 2.; levels += 1.
DoubleSize ==
    /\ pcPlan = "loop"
    /\ NeedsDoubling(cur_size, bbox.diag)
    /\ levels + 1 < U8Modulus \/ ~overflow_checks
    /\ cur_size' = FDouble(cur_size)
    /\ levels' = (levels + 1) % U8Modulus
    /\ UNCHANGED <<bbox, tile_size_px, pixel_size_m, overflow_checks, planned,
                   pcPlan>>
    /\ UNCHANGED notPlan

\* levels += 1 overflows u8 in a build with overflow checks: the thread
\* panics ("attempt to add with overflow").
LevelsOverflowPanic ==
    /\ pcPlan = "loop"
    /\ NeedsDoubling(cur_size, bbox.diag)
    /\ levels + 1 >= U8Modulus /\ overflow_checks
    /\ pcPlan' = "panic"
    /\ UNCHANGED <<bbox, tile_size_px, pixel_size_m, overflow_checks,
                   cur_size, levels, planned>>
    /\ UNCHANGED notPlan

\* The loop condition is false: return (Rect::new(min, cur_size), levels).
ReturnPlan ==
    /\ pcPlan = "loop"
    /\ ~NeedsDoubling(cur_size, bbox.diag)
    /\ planned' = [rect |-> [min |-> bbox.min, edge |-> cur_size],
                   levels |-> levels]
    /\ pcPlan' = "done"
    /\ UNCHANGED <<bbox, tile_size_px, pixel_size_m, overflow_checks,
                   cur_size, levels>>
    /\ UNCHANGED notPlan

----------------------------------------------------------------------------
(* Numbers: rationals for the f32 / f64 quantities that are sums, means    *)
(* and quotients of small integers, and a fixed-point logarithm for ln.    *)
(* Rounding of the floating point operations is not modelled.              *)

Abs(a) == IF a < 0 THEN -a ELSE a

Min(a, b) == IF a <= b THEN a ELSE b

RECURSIVE Gcd(_, _)
Gcd(a, b) == IF b = 0 THEN a ELSE Gcd(b, a % b)

\* The rational n / d (d # 0) in lowest terms with a positive denominator.
Rat(n, d) ==
    LET g == Gcd(Abs(n), Abs(d))
        sgn == IF d < 0 THEN -1 ELSE 1
    IN  [n |-> sgn * (n \div g), d |-> sgn * (d \div g)]

RInt(k) == [n |-> k, d |-> 1]

RAdd(a, b) == Rat(a.n * b.d + b.n * a.d, a.d * b.d)

RSub(a, b) == Rat(a.n * b.d - b.n * a.d, a.d * b.d)

RMul(a, b) == Rat(a.n * b.n, a.d * b.d)

RDiv(a, b) == Rat(a.n * b.d, a.d * b.n)

RLt(a, b) == a.n * b.d < b.n * a.d

RMax(a, b) == IF RLt(a, b) THEN b ELSE a

RMin(a, b) == IF RLt(b, a) THEN b ELSE a

\* The largest integer <= a.
RFloor(a) == a.n \div a.d

RECURSIVE SumOver(_, _)
\* The sum of the rationals f[k], k in the finite set S.
SumOver(f, S) ==
    IF S = {} THEN RInt(0)
    ELSE LET k == CHOOSE k \in S : TRUE
         IN  RAdd(f[k], SumOver(f, S \ {k}))

RECURSIVE ISqrtFrom(_, _)
ISqrtFrom(n, r) == IF (r + 1) * (r + 1) > n THEN r ELSE ISqrtFrom(n, r + 1)

\* The largest integer r with r * r <= n.
ISqrt(n) == ISqrtFrom(n, 0)

\* One unit of the fixed-point logarithm: 2^14.
LogOne == Pow(2, 14)

RECURSIVE FloorLog2(_)
FloorLog2(n) == IF n < 2 THEN 0 ELSE 1 + FloorLog2(n \div 2)

RECURSIVE Log2Frac(_, _)
\* The fraction bits of log2(x / LogOne), LogOne <= x < 2 * LogOne, by
\* repeated squaring; `bit` is the weight of the next bit.
Log2Frac(x, bit) ==
    IF bit = 0 THEN 0
    ELSE LET sq == (x * x) \div LogOne
         IN  IF sq >= 2 * LogOne
             THEN bit + Log2Frac(sq \div 2, bit \div 2)
             ELSE Log2Frac(sq, bit \div 2)

\* ln(n) for an integer n >= 1, in units of ln(2) / LogOne.
Ln(n) ==
    LET k == FloorLog2(n)
    IN  k * LogOne + Log2Frac((n * LogOne) \div Pow(2, k), LogOne \div 2)

\* `v as u8` for a float of floor v: the cast saturates.
AsU8(v) == Max(0, Min(255, v))

\* `v as u32` for a float of floor v >= -1: the cast saturates at 0.
AsU32(v) == Max(0, v)

----------------------------------------------------------------------------
(* Options, colours and images.                                            *)

NoneV == [some |-> FALSE]

Some(v) == [some |-> TRUE, v |-> v]

\* Color<u8>: the two tile backgrounds the arguments offer.
WHITE_U8 == [red |-> 255, green |-> 255, blue |-> 255, alpha |-> 255]

TRANSPARENT_U8 == [red |-> 0, green |-> 0, blue |-> 0, alpha |-> 0]

\* TileBackgroundColorArgument::to_color
BackgroundColors == {WHITE_U8, TRANSPARENT_U8}

\* Rgba::from(Color<u8>): the four channels in the order r, g, b, a.
RgbaFrom(c) == <<c.red, c.green, c.blue, c.alpha>>

\* The k-th opaque pixel value of the palette the tiles are painted with.
PalettePixel(k) ==
    <<(k % 2) * 255, ((k \div 2) % 2) * 255, ((k \div 4) % 2) * 128 + 64, 255>>

Pixels(w, h) == (0..(w - 1)) \X (0..(h - 1))

\* A w x h image whose pixel values change from pixel to pixel.
RampImage(w, h, c) ==
    [width |-> w, height |-> h,
     px |-> [p \in Pixels(w, h) |->
                PalettePixel((c + p[1] + w * p[2]) % NumColors)]]

\* RgbaImage::from_pixel(w, h, pixel)
ImageFromPixel(w, h, pixel) ==
    [width |-> w, height |-> h, px |-> [p \in Pixels(w, h) |-> pixel]]

\* GenericImage::copy_from(other, x, y): every pixel (i, j) of other lands on
\* (i + x, j + y).  The caller unwraps the result, so other must fit.
CopyFrom(img, other, x, y) ==
    [img EXCEPT !.px =
        [p \in Pixels(img.width, img.height) |->
            IF /\ x <= p[1] /\ p[1] < x + other.width
               /\ y <= p[2] /\ p[2] < y + other.height
            THEN other.px[<<p[1] - x, p[2] - y>>]
            ELSE img.px[p]]]

----------------------------------------------------------------------------
(* Points, batches and their discretization (process_point_data).          *)

\* The number of z buckets of a column.
NUM_Z_BUCKETS == 1024

P3(x, y, z) == [x |-> x, y |-> y, z |-> z]

\* Aabb::diag
Diag(box) ==
    P3(box.max.x - box.min.x, box.max.y - box.min.y, box.max.z - box.min.z)

\* A discretization that clamps to the last pixel and bucket.
DiscretizeClamped(pos, box, size) ==
    LET d == Diag(box)
    IN  P3(Min(size[1] - 1, AsU32(((pos.x - box.min.x) * size[1]) \div d.x)),
           Min(size[2] - 1,
               AsU32(((d.y - (pos.y - box.min.y)) * size[2]) \div d.y)),
           Min(NUM_Z_BUCKETS - 1,
               AsU32(((pos.z - box.min.z) * NUM_Z_BUCKETS) \div d.z)))

\* The pixel (x, y) and z bucket of a position: lines 126-129.  y is
\* inverted, and each value is truncated by the cast to u32.
Discretize(pos, box, size) ==
    LET d == Diag(box)
    IN  P3(AsU32(((pos.x - box.min.x) * size[1]) \div d.x),
           AsU32(((d.y - (pos.y - box.min.y)) * size[2]) \div d.y),
           AsU32(((pos.z - box.min.z) * NUM_Z_BUCKETS) \div d.z))

\* The first loop of process_point_data over a batch.
DiscretizeBatch(batch, box, size) ==
    [i \in 1..Len(batch) |-> Discretize(batch[i].position, box, size)]

\* A point of a batch: its position and its attributes.
Point(pos, intensity, color, bin_attr) ==
    [position |-> pos, intensity |-> intensity, color |-> color,
     bin_attr |-> bin_attr]

\* BinnedColoringStrategy::bins for one point: the attribute divided by the
\* bin size, truncated by the cast to i64; 0 without binning.
BinOf(binning, point) ==
    IF binning.some
    THEN LET q == Abs(point.bin_attr) \div binning.v
         IN  IF point.bin_attr < 0 THEN -q ELSE q
    ELSE 0

\* entry(k).or_default() followed by an update of the entry.
MapPut(m, k, v) == [c \in DOMAIN m \cup {k} |-> IF c = k THEN v ELSE m[c]]

EmptyMap == <<>>

----------------------------------------------------------------------------
(* The four coloring strategies.  The state of a strategy is its column    *)
(* map; step i of process_discretized_point_data is an operator from the   *)
(* state before to the state after.                                        *)

Col(d_loc) == <<d_loc.x, d_loc.y>>

Gray(v) == [red |-> v, green |-> v, blue |-> v, alpha |-> 255]

\* XRayColoringStrategy: z_buckets.entry((x, y)).or_default().insert(z)
XRayInsert(z_buckets, d_loc) ==
    LET c   == Col(d_loc)
        old == IF c \in DOMAIN z_buckets THEN z_buckets[c] ELSE {}
    IN  MapPut(z_buckets, c, old \cup {d_loc.z})

\* A gray value that grows with the number of buckets.
XRayValueInverted(n) == AsU8((Ln(n) * 255) \div Ln(NUM_Z_BUCKETS))

\* ((1. - ln(n) / ln(NUM_Z_BUCKETS)) * 255.) as u8
XRayValue(n) == AsU8(((Ln(NUM_Z_BUCKETS) - Ln(n)) * 255) \div Ln(NUM_Z_BUCKETS))

XRayPixelColor(z_buckets, x, y) ==
    IF <<x, y>> \in DOMAIN z_buckets
    THEN Some(Gray(XRayValue(Cardinality(z_buckets[<<x, y>>]))))
    ELSE NoneV

\* PerColumnData::default()
NoColumnData(zero) == [sum |-> zero, count |-> 0]

\* per_column_data.entry((x, y)).or_default().entry(bin).or_default(),
\* then sum += value; count += 1, with `plus` the addition of the sums.
Accumulate(per_column_data, d_loc, bin, sum_after) ==
    LET c    == Col(d_loc)
        bins == IF c \in DOMAIN per_column_data THEN per_column_data[c]
                ELSE EmptyMap
        old  == IF bin \in DOMAIN bins THEN bins[bin].count ELSE 0
    IN  MapPut(per_column_data, c,
               MapPut(bins, bin, [sum |-> sum_after, count |-> old + 1]))

BinSum(per_column_data, d_loc, bin, zero) ==
    LET c == Col(d_loc)
    IN  IF c \in DOMAIN per_column_data /\ bin \in DOMAIN per_column_data[c]
        THEN per_column_data[c][bin].sum
        ELSE zero

\* IntensityColoringStrategy, one point with intensity >= 0.
IntensityAdd(per_column_data, d_loc, bin, intensity) ==
    Accumulate(per_column_data, d_loc, bin,
               BinSum(per_column_data, d_loc, bin, 0) + intensity)

\* Color<f32>::to_u8 of one channel: times 255, clamped.
ChannelToU8(r) == AsU8(RFloor(RMul(r, RInt(255))))

\* ln(a) / ln(b) * 255 as a u8, for rationals a >= 0 and b > 0: ln(0) is
\* -inf and a ratio of infinities or 0 / 0 is NaN, which the cast turns to 0.
LnRatioToU8(a, b) ==
    LET lb == Ln(b.n) - Ln(b.d)
        la == Ln(a.n) - Ln(a.d)
    IN  IF a.n = 0 THEN (IF lb < 0 THEN 255 ELSE 0)
        ELSE IF lb = 0 THEN (IF la > 0 THEN 255 ELSE 0)
        ELSE AsU8((la * 255) \div lb)

\* The mean over the bins of a column of the mean of each bin.
MeanOfBinMeans(bins) ==
    RDiv(SumOver([b \in DOMAIN bins |-> Rat(bins[b].sum, bins[b].count)],
                 DOMAIN bins),
         RInt(Cardinality(DOMAIN bins)))

IntensityPixelColor(per_column_data, min, max, x, y) ==
    IF <<x, y>> \in DOMAIN per_column_data
    THEN LET mean == RMin(RMax(MeanOfBinMeans(per_column_data[<<x, y>>]),
                               RInt(min)), RInt(max))
         IN  Some(Gray(LnRatioToU8(RSub(mean, RInt(min)), RInt(max - min))))
    ELSE NoneV

\* Color<f32> with the channels as multiples of 1/255; alpha is 255.
ColorToF32(rgb) == <<rgb[1], rgb[2], rgb[3], 255>>

ColorZero == <<0, 0, 0, 0>>

ColorPlus(a, b) == [k \in 1..4 |-> a[k] + b[k]]

\* PointColorColoringStrategy, one point.
PointColorAdd(per_column_data, d_loc, bin, rgb) ==
    Accumulate(per_column_data, d_loc, bin,
               ColorPlus(BinSum(per_column_data, d_loc, bin, ColorZero),
                         ColorToF32(rgb)))

PointColorPixelColor(per_column_data, x, y) ==
    IF <<x, y>> \in DOMAIN per_column_data
    THEN LET bins == per_column_data[<<x, y>>]
             ch(k) == ChannelToU8(RDiv(
                          MeanOfBinMeans([b \in DOMAIN bins |->
                              [sum |-> bins[b].sum[k],
                               count |-> bins[b].count]]),
                          RInt(255)))
         IN  Some([red |-> ch(1), green |-> ch(2), blue |-> ch(3),
                   alpha |-> ch(4)])
    ELSE NoneV

\* OnlineStats::new and OnlineStats::add (Welford).
OnlineStatsNew == [size |-> 0, mean |-> RInt(0), q |-> RInt(0)]

OnlineStatsAdd(st, sample) ==
    LET size   == st.size + 1
        delta  == RSub(RInt(sample), st.mean)
        mean   == RAdd(st.mean, RDiv(delta, RInt(size)))
        delta2 == RSub(RInt(sample), mean)
    IN  [size |-> size, mean |-> mean, q |-> RAdd(st.q, RMul(delta, delta2))]

\* HeightStddevColoringStrategy, one point: the world z of the position.
HeightStddevAdd(per_column_data, d_loc, z) ==
    LET c   == Col(d_loc)
        old == IF c \in DOMAIN per_column_data THEN per_column_data[c]
               ELSE OnlineStatsNew
    IN  MapPut(per_column_data, c, OnlineStatsAdd(old, z))

\* clamp(stddev, 0, max_stddev) / max_stddev in units of 1/255, with
\* stddev = sqrt(q / size).
Saturation255(st, max_stddev) ==
    LET var == RDiv(st.q, RInt(st.size))
    IN  IF ~RLt(var, RInt(max_stddev * max_stddev)) THEN 255
        ELSE ISqrt(RFloor(RDiv(RMul(var, RInt(255 * 255)),
                               RInt(max_stddev * max_stddev))))

\* Colormap::for_value: a ramp from white to the base colour (Monochrome)
\* or from blue to red (Jet).
ColormapForValue(colormap, s255) ==
    IF colormap = "purplish"
    THEN [red |-> 255 - (s255 * 128) \div 255, green |-> 255 - s255,
          blue |-> 255 - (s255 * 128) \div 255, alpha |-> 255]
    ELSE [red |-> s255, green |-> 255 - Abs(2 * s255 - 255),
          blue |-> 255 - s255, alpha |-> 255]

HeightStddevPixelColor(per_column_data, max_stddev, colormap, x, y) ==
    IF <<x, y>> \in DOMAIN per_column_data
    THEN Some(ColormapForValue(colormap,
                  Saturation255(per_column_data[<<x, y>>], max_stddev)))
    ELSE NoneV

\* An intensity strategy that skips a negative point and goes on.
ProcessPointSkipNegative(kind, strategy, point, d_loc) ==
    CASE kind.name = "xray" -> [state |-> XRayInsert(strategy, d_loc),
                                 return |-> FALSE]
      [] kind.name = "colored" ->
             [state |-> PointColorAdd(strategy, d_loc,
                                      BinOf(kind.binning, point), point.color),
              return |-> FALSE]
      [] kind.name = "colored_with_intensity" ->
             IF point.intensity < 0
             THEN [state |-> strategy, return |-> FALSE]
             ELSE [state |-> IntensityAdd(strategy, d_loc,
                                 BinOf(kind.binning, point), point.intensity),
                   return |-> FALSE]
      [] OTHER -> [state |-> HeightStddevAdd(strategy, d_loc,
                                             point.position.z),
                   return |-> FALSE]

\* Strategies whose loop returns after the first point it looks at.
ProcessPointFirstOnly(kind, strategy, point, d_loc) ==
    [state |-> ProcessPointSkipNegative(kind, strategy, point, d_loc).state,
     return |-> TRUE]

\* One iteration of the loop of process_discretized_point_data of the
\* strategy of this kind: the column map after it, and whether the
\* iteration returns from the function.
ProcessPoint(kind, strategy, point, d_loc) ==
    CASE kind.name = "xray" -> [state |-> XRayInsert(strategy, d_loc),
                                 return |-> FALSE]
      [] kind.name = "colored" ->
             [state |-> PointColorAdd(strategy, d_loc,
                                      BinOf(kind.binning, point), point.color),
              return |-> FALSE]
      [] kind.name = "colored_with_intensity" ->
             IF point.intensity < 0
             THEN [state |-> strategy, return |-> TRUE]
             ELSE [state |-> IntensityAdd(strategy, d_loc,
                                 BinOf(kind.binning, point), point.intensity),
                   return |-> FALSE]
      [] OTHER -> [state |-> HeightStddevAdd(strategy, d_loc,
                                             point.position.z),
                   return |-> FALSE]

\* ColoringStrategy::get_pixel_color of the strategy of this kind.
GetPixelColor(kind, strategy, x, y) ==
    CASE kind.name = "xray" -> XRayPixelColor(strategy, x, y)
      [] kind.name = "colored" -> PointColorPixelColor(strategy, x, y)
      [] kind.name = "colored_with_intensity" ->
             IntensityPixelColor(strategy, kind.min, kind.max, x, y)
      [] OTHER -> HeightStddevPixelColor(strategy, kind.max_stddev,
                                         kind.colormap, x, y)

----------------------------------------------------------------------------
(* xray_from_points and the leaf task of create_leaf_nodes, for one leaf.  *)
(* parameters.query_from_global is None and there are no filter intervals. *)

Kind(name, binning, min, max, max_stddev, colormap) ==
    [name |-> name, binning |-> binning, min |-> min, max |-> max,
     max_stddev |-> max_stddev, colormap |-> colormap]

\* The values of ColoringStrategyKind the runs are made with.
Kinds ==
    {Kind("xray", NoneV, 0, 0, 0, "none")}
    \cup {Kind("colored", b, 0, 0, 0, "none") : b \in {NoneV, Some(2)}}
    \cup {Kind("colored_with_intensity", b, 0, 10, 0, "none") :
              b \in {NoneV, Some(2)}}
    \cup {Kind("colored_with_height_stddev", NoneV, 0, 0, 2, c) :
              c \in {"jet", "purplish"}}

\* The leaves the runs are made for, and the bounding box of each: the
\* rectangle of the node and the z range of the point cloud.  Lengths are
\* in units of half a metre.
Leaves == {<<0>>, <<3>>}

LeafBox(id) ==
    IF id = <<0>> THEN [min |-> P3(0, 0, 0), max |-> P3(2, 2, 2)]
    ELSE [min |-> P3(-4, 8, 0), max |-> P3(4, 16, NUM_Z_BUCKETS)]

Mid(box) ==
    P3(box.min.x + Diag(box).x \div 2, box.min.y + Diag(box).y \div 2,
       box.min.z + Diag(box).z \div 2)

\* Positions inside the box, its boundary included: the centre, the centre
\* at the bottom and at the top of the box, the upper left corner, the
\* right edge and the lower edge.
Centre(box) == Mid(box)

CentreLow(box) == P3(Mid(box).x, Mid(box).y, box.min.z)

AboveCentreLow(box, k) == P3(Mid(box).x, Mid(box).y, box.min.z + k)

UpperLeft(box) == P3(box.min.x, box.max.y, box.min.z)

RightEdge(box) == P3(box.max.x, Mid(box).y, Mid(box).z)

LowerEdge(box) == P3(Mid(box).x, box.min.y, box.max.z)

NoColor == <<0, 0, 0>>

\* The points a batch for a strategy of this kind is made of.
PointChoices(kind, box) ==
    CASE kind.name = "xray" ->
             {Point(pos, 0, NoColor, 0) :
                  pos \in {Centre(box), RightEdge(box), LowerEdge(box)}}
      [] kind.name = "colored" ->
             {Point(Centre(box), 0, a[1], a[2]) :
                  a \in {<<<<255, 0, 0>>, 0>>, <<<<0, 0, 255>>, 0>>,
                         <<<<0, 0, 255>>, 3>>}}
      [] kind.name = "colored_with_intensity" ->
             {Point(Centre(box), a[1], NoColor, a[2]) :
                  a \in {<<-1, 0>>, <<2, 0>>, <<5, 3>>}}
             \cup {Point(UpperLeft(box), 2, NoColor, 0)}
      [] OTHER ->
             {Point(pos, 0, NoColor, 0) :
                  pos \in {CentreLow(box), AboveCentreLow(box, 2),
                           UpperLeft(box)}}

\* A batch of points above the centre of the box, one for each z from
\* min.z + lo to min.z + hi.
ZRun(box, lo, hi) ==
    [i \in 1..(hi - lo + 1) |->
        Point(P3(Mid(box).x, Mid(box).y, box.min.z + lo + i - 1), 0,
              NoColor, 0)]

ZRuns(kind, box) ==
    IF kind.name = "xray" /\ Diag(box).z = NUM_Z_BUCKETS
    THEN {ZRun(box, 0, NUM_Z_BUCKETS - 1),
          ZRun(box, 0, NUM_Z_BUCKETS \div 2 - 1),
          ZRun(box, NUM_Z_BUCKETS \div 2, NUM_Z_BUCKETS - 1)}
    ELSE {}

\* The batches the point source may yield.
Batches(kind, box) ==
    SeqsUpTo(PointChoices(kind, box), MaxBatchLen) \cup ZRuns(kind, box)

\* An image whose untouched pixels are white.
RenderWhiteBackground(kind, strategy, size) ==
    [width |-> size[1], height |-> size[2],
     px |-> [p \in Pixels(size[1], size[2]) |->
                LET c == GetPixelColor(kind, strategy, p[1], p[2])
                IN  IF c.some THEN RgbaFrom(c.v) ELSE RgbaFrom(WHITE_U8)]]

\* The image of lines 512-517: the colour of the strategy, or transparent.
Render(kind, strategy, size) ==
    [width |-> size[1], height |-> size[2],
     px |-> [p \in Pixels(size[1], size[2]) |->
                LET c == GetPixelColor(kind, strategy, p[1], p[2])
                IN  IF c.some THEN RgbaFrom(c.v)
                    ELSE RgbaFrom(TRANSPARENT_U8)]]

\* A rasterizer that returns an image whether or not a batch was seen.
XrayFromPointsAlwaysImage(seen, kind, strategy, size) ==
    Some(Render(kind, strategy, size))

\* The value xray_from_points returns once the stream has ended.
XrayFromPointsResult(seen, kind, strategy, size) ==
    IF ~seen THEN NoneV ELSE Some(Render(kind, strategy, size))

IdleRaster ==
    /\ coloring_strategy_kind = Kind("xray", NoneV, 0, 0, 0, "none")
    /\ leaf_id = <<0>>
    /\ tile_bbox = LeafBox(<<0>>)
    /\ image_size = <<TilePx, TilePx>>
    /\ coloring_strategy = EmptyMap
    /\ seen_any_points = FALSE
    /\ batches_delivered = 0
    /\ points_batch = <<>>
    /\ discretized_locations = <<>>
    /\ idx = 1
    /\ image = NoneV
    /\ files = EmptyMap
    /\ created_leaf_node_ids = {}
    /\ task_result = "none"
    /\ pcRaster = "idle"

\* The leaf task has made a fresh strategy and called xray_from_points,
\* which is about to stream the batches of its query.
InitRaster ==
    /\ coloring_strategy_kind \in Kinds
    /\ leaf_id \in Leaves
    /\ tile_bbox = LeafBox(leaf_id)
    /\ image_size = <<TilePx, TilePx>>
    /\ coloring_strategy = EmptyMap
    /\ seen_any_points = FALSE
    /\ batches_delivered = 0
    /\ points_batch = <<>>
    /\ discretized_locations = <<>>
    /\ idx = 1
    /\ image = NoneV
    /\ files = EmptyMap
    /\ created_leaf_node_ids = {}
    /\ task_result = "none"
    /\ pcRaster = "stream"

\* The point source calls the closure with a batch: seen_any_points is
\* set and process_point_data discretizes the positions.
DeliverBatch ==
    /\ pcRaster = "stream"
    /\ batches_delivered < MaxBatches
    /\ \E batch \in Batches(coloring_strategy_kind, tile_bbox) :
           /\ points_batch' = batch
           /\ discretized_locations' =
                  DiscretizeBatch(batch, tile_bbox, image_size)
    /\ seen_any_points' = TRUE
    /\ batches_delivered' = batches_delivered + 1
    /\ idx' = 1
    /\ pcRaster' = "process"
    /\ UNCHANGED <<coloring_strategy_kind, leaf_id, tile_bbox, image_size,
                   coloring_strategy, image, files, created_leaf_node_ids,
                   task_result>>
    /\ UNCHANGED notRaster

\* One iteration of the loop of process_discretized_point_data.  An
\* iteration that returns leaves idx at the point it returned on.
ProcessNextPoint ==
    /\ pcRaster = "process"
    /\ idx <= Len(points_batch)
    /\ LET r == ProcessPoint(coloring_strategy_kind, coloring_strategy,
                             points_batch[idx], discretized_locations[idx])
       IN  /\ coloring_strategy' = r.state
           /\ idx' = IF r.return THEN idx ELSE idx + 1
           /\ pcRaster' = IF r.return THEN "stream" ELSE "process"
    /\ UNCHANGED <<coloring_strategy_kind, leaf_id, tile_bbox, image_size,
                   seen_any_points, batches_delivered, points_batch,
                   discretized_locations, image, files,
                   created_leaf_node_ids, task_result>>
    /\ UNCHANGED notRaster

\* The loop has run over the whole batch: the closure returns Ok(()).
ReturnFromBatch ==
    /\ pcRaster = "process"
    /\ idx > Len(points_batch)
    /\ pcRaster' = "stream"
    /\ UNCHANGED <<coloring_strategy_kind, leaf_id, tile_bbox, image_size,
                   coloring_strategy, seen_any_points, batches_delivered,
                   points_batch, discretized_locations, idx, image, files,
                   created_leaf_node_ids, task_result>>
    /\ UNCHANGED notRaster

\* for_each_point_data returns (its error, if any, is dropped) and
\* xray_from_points returns None or the image.
EndOfStream ==
    /\ pcRaster = "stream"
    /\ image' = XrayFromPointsResult(seen_any_points, coloring_strategy_kind,
                                     coloring_strategy, image_size)
    /\ pcRaster' = "rasterized"
    /\ UNCHANGED <<coloring_strategy_kind, leaf_id, tile_bbox, image_size,
                   coloring_strategy, seen_any_points, batches_delivered,
                   points_batch, discretized_locations, idx, files,
                   created_leaf_node_ids, task_result>>
    /\ UNCHANGED notRaster

\* image.save succeeds and the node id is sent on the channel.
SaveLeaf ==
    /\ pcRaster = "rasterized"
    /\ image.some
    /\ files' = MapPut(files, leaf_id, image.v)
    /\ created_leaf_node_ids' = created_leaf_node_ids \cup {leaf_id}
    /\ task_result' = "Ok"
    /\ pcRaster' = "done"
    /\ UNCHANGED <<coloring_strategy_kind, leaf_id, tile_bbox, image_size,
                   coloring_strategy, seen_any_points, batches_delivered,
                   points_batch, discretized_locations, idx, image>>
    /\ UNCHANGED notRaster

\* image.save fails: the task returns the error.
SaveLeafFails ==
    /\ pcRaster = "rasterized"
    /\ image.some
    /\ task_result' = "Err"
    /\ pcRaster' = "done"
    /\ UNCHANGED <<coloring_strategy_kind, leaf_id, tile_bbox, image_size,
                   coloring_strategy, seen_any_points, batches_delivered,
                   points_batch, discretized_locations, idx, image, files,
                   created_leaf_node_ids>>
    /\ UNCHANGED notRaster

\* xray_from_points returned None: nothing is saved or sent.
SkipLeaf ==
    /\ pcRaster = "rasterized"
    /\ ~image.some
    /\ task_result' = "Ok"
    /\ pcRaster' = "done"
    /\ UNCHANGED <<coloring_strategy_kind, leaf_id, tile_bbox, image_size,
                   coloring_strategy, seen_any_points, batches_delivered,
                   points_batch, discretized_locations, idx, image, files,
                   created_leaf_node_ids>>
    /\ UNCHANGED notRaster

----------------------------------------------------------------------------
(* Two calls of xray_from_points for the same leaf, whose point source     *)
(* yields the same sequence of points cut into batches in its own way for  *)
(* each call.  The calls share nothing, so the second is run after the     *)
(* first.                                                                  *)

Runs == {1, 2}

\* The points a sequence for a strategy of this kind is made of: all above
\* the middle of the x range of the box.
SplitPoints(kind, box) ==
    CASE kind.name = "xray" ->
             {Point(pos, 0, NoColor, 0) :
                  pos \in {Centre(box), CentreLow(box), LowerEdge(box)}}
      [] kind.name = "colored_with_height_stddev" ->
             {Point(AboveCentreLow(box, k), 0, NoColor, 0) : k \in 0..2}
      [] OTHER ->
             {p \in PointChoices(kind, box) : p.position.x = Mid(box).x}

\* The fields of one call: its strategy, the number of batches and of
\* points the source has yielded, the batch the closure is working on and
\* the value the call returned.
Run(pc) ==
    [coloring_strategy |-> EmptyMap, batches_delivered |-> 0,
     consumed |-> 0, points_batch |-> <<>>, discretized_locations |-> <<>>,
     idx |-> 1, image |-> NoneV, pc |-> pc]

\* The second call starts when the first has returned.
Turn(r) == r = 1 \/ runs[1].pc = "done"

IdleSplit ==
    /\ split_kind = Kind("xray", NoneV, 0, 0, 0, "none")
    /\ split_bbox = LeafBox(<<0>>)
    /\ source_points = <<>>
    /\ runs = [r \in Runs |-> Run("idle")]

InitSplit ==
    /\ split_kind \in Kinds
    /\ split_bbox = LeafBox(<<0>>)
    /\ source_points \in SeqsUpTo(SplitPoints(split_kind, split_bbox),
                                  MaxSplitPoints)
    /\ runs = [r \in Runs |-> Run("stream")]

\* The point source calls the closure with the next k points.
SplitDeliverBatch ==
    /\ \E r \in Runs, k \in 1..MaxSplitPoints :
           /\ Turn(r)
           /\ runs[r].pc = "stream"
           /\ runs[r].consumed + k <= Len(source_points)
           /\ LET batch == SubSeq(source_points, runs[r].consumed + 1,
                                  runs[r].consumed + k)
              IN  runs' = [runs EXCEPT ![r] =
                      [@ EXCEPT !.points_batch = batch,
                                !.discretized_locations =
                                    DiscretizeBatch(batch, split_bbox,
                                                    <<TilePx, TilePx>>),
                                !.idx = 1,
                                !.consumed = @ + k,
                                !.batches_delivered = @ + 1,
                                !.pc = "process"]]
    /\ UNCHANGED <<split_kind, split_bbox, source_points>>
    /\ UNCHANGED notSplit

\* One iteration of the loop of process_discretized_point_data.
SplitProcessNextPoint ==
    /\ \E r \in Runs :
           /\ Turn(r)
           /\ runs[r].pc = "process"
           /\ runs[r].idx <= Len(runs[r].points_batch)
           /\ LET res == ProcessPoint(split_kind, runs[r].coloring_strategy,
                             runs[r].points_batch[runs[r].idx],
                             runs[r].discretized_locations[runs[r].idx])
              IN  runs' = [runs EXCEPT ![r] =
                      [@ EXCEPT !.coloring_strategy = res.state,
                                !.idx = IF res.return THEN @ ELSE @ + 1,
                                !.pc = IF res.return THEN "stream"
                                       ELSE "process"]]
    /\ UNCHANGED <<split_kind, split_bbox, source_points>>
    /\ UNCHANGED notSplit

\* The loop has run over the whole batch: the closure returns Ok(()).
SplitReturnFromBatch ==
    /\ \E r \in Runs :
           /\ Turn(r)
           /\ runs[r].pc = "process"
           /\ runs[r].idx > Len(runs[r].points_batch)
           /\ runs' = [runs EXCEPT ![r].pc = "stream"]
    /\ UNCHANGED <<split_kind, split_bbox, source_points>>
    /\ UNCHANGED notSplit

\* The source has yielded every point: xray_from_points returns, and the
\* batch of the last closure call is gone.
SplitEndOfStream ==
    /\ \E r \in Runs :
           /\ Turn(r)
           /\ runs[r].pc = "stream"
           /\ runs[r].consumed = Len(source_points)
           /\ runs' = [runs EXCEPT ![r] =
                  [@ EXCEPT !.image =
                                XrayFromPointsResult(
                                    runs[r].batches_delivered > 0, split_kind,
                                    runs[r].coloring_strategy,
                                    <<TilePx, TilePx>>),
                            !.points_batch = <<>>,
                            !.discretized_locations = <<>>,
                            !.idx = 1,
                            !.pc = "done"]]
    /\ UNCHANGED <<split_kind, split_bbox, source_points>>
    /\ UNCHANGED notSplit

----------------------------------------------------------------------------
(* build_parent.                                                           *)

\* The first loop: every present child is square, and all have one size.
PresentChildren(ch) == {i \in 0..3 : ch[i].some}

ChildrenSquare(ch) ==
    \A i \in PresentChildren(ch) : ch[i].v.width = ch[i].v.height

ChildrenSameSize(ch) ==
    \A i, j \in PresentChildren(ch) : ch[i].v.width = ch[j].v.width

\* child_size_px: the width of the present children.
ChildSizePx(ch) ==
    LET i == CHOOSE i \in PresentChildren(ch) : TRUE IN ch[i].v.width

\* A placement without the inversion of y.
QuadrantOffsetsNoFlip(n) ==
    << <<0, 0, 0>>, <<1, 0, n>>, <<2, n, 0>>, <<3, n, n>> >>

\* The table (id, xoffs, yoffs) of the second loop.
QuadrantOffsets(n) ==
    << <<1, 0, 0>>, <<0, 0, n>>, <<3, n, 0>>, <<2, n, n>> >>

RECURSIVE PasteChildren(_, _, _, _)
\* The second loop, from entry k of the table on.
PasteChildren(img, ch, table, k) ==
    IF k > Len(table) THEN img
    ELSE LET id   == table[k][1]
             next == IF ch[id].some
                     THEN CopyFrom(img, ch[id].v, table[k][2], table[k][3])
                     ELSE img
         IN  PasteChildren(next, ch, table, k + 1)

BuildParent(ch, bg) ==
    LET n == ChildSizePx(ch)
    IN  PasteChildren(ImageFromPixel(n * 2, n * 2, RgbaFrom(bg)), ch,
                      QuadrantOffsets(n), 1)

\* The shapes a child slot is tried with: absent, or w x h pixels.
ChildShapes ==
    {[some |-> FALSE, w |-> 0, h |-> 0]} \cup
    {[some |-> TRUE, w |-> w, h |-> h] : w \in 1..MaxChildPx,
                                        h \in 1..MaxChildPx}

ChildOfShape(shape, c) ==
    IF shape.some THEN Some(RampImage(shape.w, shape.h, c)) ELSE NoneV

NoImage == [width |-> 0, height |-> 0, px |-> <<>>]

IdleParent ==
    /\ children = [i \in 0..3 |-> NoneV]
    /\ tile_background_color = WHITE_U8
    /\ large_image = NoImage
    /\ pcParent = "idle"

\* The arguments of a call of build_parent.
InitParent ==
    /\ \E base \in 0..(NumColors - 1), shapes \in [0..3 -> ChildShapes] :
           children = [i \in 0..3 |->
                          ChildOfShape(shapes[i], (base + i) % NumColors)]
    /\ tile_background_color \in BackgroundColors
    /\ large_image = NoImage
    /\ pcParent = "call"

\* The call returns the composite image.
BuildParentReturn ==
    /\ pcParent = "call"
    /\ ChildrenSquare(children)
    /\ ChildrenSameSize(children)
    /\ PresentChildren(children) # {}
    /\ large_image' = BuildParent(children, tile_background_color)
    /\ pcParent' = "done"
    /\ UNCHANGED <<children, tile_background_color>>
    /\ UNCHANGED notParent

\* One of the assertions of the first loop fails, or no child is present.
BuildParentPanic ==
    /\ pcParent = "call"
    /\ \/ ~ChildrenSquare(children)
       \/ ~ChildrenSameSize(children)
       \/ PresentChildren(children) = {}
    /\ pcParent' = "panic"
    /\ UNCHANGED <<children, tile_background_color, large_image>>
    /\ UNCHANGED notParent

----------------------------------------------------------------------------
(* build_xray_quadtree: the driver and the tasks of its three parallel     *)
(* phases.  The planner's result (deepest_level) is an input.  The point   *)
(* cloud is given by the leaves that hold points; a leaf task's            *)
(* xray_from_points returns an image for exactly those.  A task is started *)
(* by one of MaxWorkers threads and finishes in a later step.              *)

\* get_image_path(output_directory, node_id): one file per node id.
ImagePathPerLevel(id) == [ext |-> "png", node |-> <<Len(id)>>]

ImagePath(id) == [ext |-> "png", node |-> id]

\* get_nodes_at_level(root_node, level), as a set of ids.
RECURSIVE NodesAtLevel(_, _)
NodesAtLevel(root_id, lvl) ==
    IF Len(root_id) > lvl THEN {}
    ELSE IF Len(root_id) = lvl THEN {root_id}
    ELSE UNION {NodesAtLevel(GetChildId(root_id, i), lvl) : i \in ChildIndices}

\* A build that makes a task for every node of the level above.
ParentsOfAllNodes(nodes) ==
    UNION {NodesAtLevel(<<>>, Len(n) - 1) : n \in {m \in nodes : Len(m) > 0}}

\* current_level_nodes.iter().filter_map(|node| node.parent_id()).collect()
ParentsOf(nodes) == {ParentId(n) : n \in {m \in nodes : Len(m) > 0}}

\* The position of a node id among the ids of its level.
RECURSIVE Rank(_)
Rank(id) == IF id = <<>> THEN 0 ELSE 4 * Rank(ParentId(id)) + id[Len(id)]

\* The id below root_id that takes child index i at every level down to lvl.
RECURSIVE Descend(_, _, _)
Descend(root_id, i, lvl) ==
    IF Len(root_id) >= lvl THEN root_id
    ELSE Descend(GetChildId(root_id, i), i, lvl)

\* The root node ids a build with this deepest level is started with: the
\* ids on the path of child index 2, from two levels above the leaves to
\* one level below them.
RootChoices(lvl) ==
    {Descend(<<>>, 2, l) : l \in Max(0, lvl - 2)..(lvl + 1)}

\* The leaves the point cloud may have points in: the first leaf below the
\* root node, its neighbour and the last leaf.
OccupiedChoices(root_id, lvl) ==
    IF Len(root_id) > lvl THEN {}
    ELSE LET first == Descend(root_id, 0, lvl)
         IN  {first, Descend(root_id, 3, lvl)}
                 \cup (IF Len(first) > Len(root_id)
                       THEN {GetChildId(ParentId(first), 1)} ELSE {})

\* The image xray_from_points returns for a leaf with points.  The
\* neighbour of the first leaf has only batches that are empty or
\* abandoned: every pixel is transparent.  The other leaves have points in
\* their first column: its pixel is an opaque gray, the others transparent.
LeafImage(id, size) ==
    IF id # <<>> /\ id[Len(id)] = 1
    THEN ImageFromPixel(size, size, RgbaFrom(TRANSPARENT_U8))
    ELSE [width |-> size, height |-> size,
          px |-> [p \in Pixels(size, size) |->
                     IF p = <<0, 0>> THEN <<204, 204, 204, 255>>
                     ELSE RgbaFrom(TRANSPARENT_U8)]]

\* A background pass that keeps every pixel.
AssignBackgroundKeepAll(img, background_color) == img

\* map_colors(&image, |p| if p[3] < 128 { background_color } else { p })
AssignBackground(img, background_color) ==
    [img EXCEPT !.px =
        [p \in DOMAIN img.px |->
            IF img.px[p][4] < 128 THEN background_color ELSE img.px[p]]]

\* DynamicImage::resize(tile_size_px, tile_size_px, Lanczos3) of a square
\* image of twice that size, reduced to its sampling grid: the pixel of
\* the result at (i, j) is taken from (2i, 2j).
Resize(img, size) ==
    [width |-> size, height |-> size,
     px |-> [p \in Pixels(size, size) |-> img.px[<<2 * p[1], 2 * p[2]>>]]]

\* The children of build_node: the image of each child whose file exists.
ChildrenOnDisk(png, id) ==
    [i \in ChildIndices |->
        IF ImagePath(GetChildId(id, i)) \in DOMAIN png
        THEN Some(png[ImagePath(GetChildId(id, i))])
        ELSE NoneV]

\* An assert that lets every root node id pass.
RootInsideAlways(root_level, deepest) == TRUE

\* assert!(root_level <= deepest_level)
RootInside(root_level, deepest) == root_level <= deepest

\* A driver that drops the error of a phase.
PhaseResultIgnored(err) == "Ok"

\* The value of try_for_each(...) at the question mark.
PhaseResult(err) == IF err THEN "Err" ELSE "Ok"

TaskKey(kind, id) == <<kind, id>>

\* The items of a parallel iterator no thread has taken yet.
Pending(kind, items) == {n \in items : TaskKey(kind, n) \notin DOMAIN tasks}

RunningTasks == {k \in DOMAIN tasks : tasks[k] = "running"}

\* A parallel iterator that returns while its tasks still run.
JoinedNoWait(kind) == TRUE

\* The parallel iterator returns when none of its tasks is running.
Joined(kind) == \A k \in RunningTasks : k[1] # kind

\* The items a free thread may take next.  Leaves without points differ
\* in nothing but their id and are taken in the order of their ids.
Startable(kind, items) ==
    LET waiting == Pending(kind, items)
        idle == IF kind = "leaf" THEN waiting \ point_cloud ELSE {}
        rank == [n \in idle |-> Rank(n)]
    IN  IF Cardinality(RunningTasks) >= MaxWorkers THEN {}
        ELSE (waiting \ idle)
                 \cup {n \in idle : \A m \in idle : rank[n] <= rank[m]}

NoDisk == [exists |-> FALSE, png |-> EmptyMap, meta |-> NoneV]

IdleBuild ==
    /\ parameters = [root_node_id |-> <<>>, tile_background_color |-> WHITE_U8,
                     tile_size_px |-> BuildTilePx]
    /\ deepest_level = 0
    /\ point_cloud = {}
    /\ output_directory = NoDisk
    /\ leaf_nodes = {}
    /\ tasks = EmptyMap
    /\ phase_err = FALSE
    /\ created_leaf_node_ids_rx = {}
    /\ current_level = 0
    /\ current_level_nodes = {}
    /\ all_nodes = {}
    /\ point_queries = {}
    /\ pcBuild = "idle"

\* build_xray_quadtree is entered: the output directory is empty or
\* absent, and the planner is about to return deepest_level.
InitBuild ==
    /\ deepest_level \in 0..MaxLevel
    /\ parameters \in [root_node_id : RootChoices(deepest_level),
                       tile_background_color : BackgroundColors,
                       tile_size_px : {BuildTilePx}]
    /\ point_cloud \in
           {s \in SUBSET OccupiedChoices(parameters.root_node_id,
                                         deepest_level) :
                Cardinality(s) <= MaxOccupied}
    /\ output_directory \in {NoDisk, [NoDisk EXCEPT !.exists = TRUE]}
    /\ leaf_nodes = {}
    /\ tasks = EmptyMap
    /\ phase_err = FALSE
    /\ created_leaf_node_ids_rx = {}
    /\ current_level = 0
    /\ current_level_nodes = {}
    /\ all_nodes = {}
    /\ point_queries = {}
    /\ pcBuild = "entry"

\* let _ = fs::create_dir(&parameters.output_directory);
CreateDir ==
    /\ pcBuild = "entry"
    /\ output_directory' = [output_directory EXCEPT !.exists = TRUE]
    /\ pcBuild' = "planned"
    /\ UNCHANGED <<parameters, deepest_level, point_cloud, leaf_nodes, tasks,
                   phase_err, created_leaf_node_ids_rx, current_level,
                   current_level_nodes, all_nodes, point_queries>>
    /\ UNCHANGED notBuild

\* The assert on the root level holds: the leaves are enumerated and
\* create_leaf_nodes starts its parallel iterator.
EnumerateLeaves ==
    /\ pcBuild = "planned"
    /\ RootInside(NodeIdLevel(parameters.root_node_id), deepest_level)
    /\ leaf_nodes' = NodesAtLevel(parameters.root_node_id, deepest_level)
    /\ pcBuild' = "leaves"
    /\ UNCHANGED <<parameters, deepest_level, point_cloud, output_directory,
                   tasks, phase_err, created_leaf_node_ids_rx, current_level,
                   current_level_nodes, all_nodes, point_queries>>
    /\ UNCHANGED notBuild

\* The assert fails: "Specified root node id is outside quadtree."
RootOutsidePanic ==
    /\ pcBuild = "planned"
    /\ ~RootInside(NodeIdLevel(parameters.root_node_id), deepest_level)
    /\ pcBuild' = "panic"
    /\ UNCHANGED <<parameters, deepest_level, point_cloud, output_directory,
                   leaf_nodes, tasks, phase_err, created_leaf_node_ids_rx,
                   current_level, current_level_nodes, all_nodes,
                   point_queries>>
    /\ UNCHANGED notBuild

\* A thread takes a leaf: xray_from_points issues the point query.  After
\* a task has failed, a thread may still take an item before it sees that.
StartLeafTask ==
    /\ pcBuild = "leaves"
    /\ \E n \in Startable("leaf", leaf_nodes) :
           /\ tasks' = MapPut(tasks, TaskKey("leaf", n), "running")
           /\ point_queries' = point_queries \cup {n}
    /\ UNCHANGED <<parameters, deepest_level, point_cloud, output_directory,
                   leaf_nodes, phase_err, created_leaf_node_ids_rx,
                   current_level, current_level_nodes, all_nodes,
                   pcBuild>>
    /\ UNCHANGED notBuild

\* xray_from_points returned None: the task returns Ok(()).
FinishLeafNone ==
    /\ \E n \in leaf_nodes \ point_cloud :
           /\ TaskKey("leaf", n) \in RunningTasks
           /\ tasks' = MapPut(tasks, TaskKey("leaf", n), "done")
    /\ UNCHANGED <<parameters, deepest_level, point_cloud, output_directory,
                   leaf_nodes, phase_err, created_leaf_node_ids_rx,
                   current_level, current_level_nodes, all_nodes,
                   point_queries, pcBuild>>
    /\ UNCHANGED notBuild

\* xray_from_points returned an image: it is saved and the id is sent.
FinishLeafSaved ==
    /\ \E n \in leaf_nodes \cap point_cloud :
           /\ TaskKey("leaf", n) \in RunningTasks
           /\ output_directory' =
                  [output_directory EXCEPT
                       !.png = MapPut(@, ImagePath(n),
                                   LeafImage(n, parameters.tile_size_px))]
           /\ created_leaf_node_ids_rx' = created_leaf_node_ids_rx \cup {n}
           /\ tasks' = MapPut(tasks, TaskKey("leaf", n), "done")
    /\ UNCHANGED <<parameters, deepest_level, point_cloud, leaf_nodes,
                   phase_err, current_level, current_level_nodes, all_nodes,
                   point_queries, pcBuild>>
    /\ UNCHANGED notBuild

\* image.save fails: the task returns the error.
FinishLeafSaveFails ==
    /\ \E n \in leaf_nodes \cap point_cloud :
           /\ TaskKey("leaf", n) \in RunningTasks
           /\ tasks' = MapPut(tasks, TaskKey("leaf", n), "failed")
    /\ phase_err' = TRUE
    /\ UNCHANGED <<parameters, deepest_level, point_cloud, output_directory,
                   leaf_nodes, created_leaf_node_ids_rx, current_level,
                   current_level_nodes, all_nodes, point_queries, pcBuild>>
    /\ UNCHANGED notBuild

\* try_for_each returns: on an error create_leaf_nodes and the driver
\* return it, otherwise the ids are collected and assign_background_color
\* starts its parallel iterator.
JoinLeaves ==
    /\ pcBuild = "leaves"
    /\ Joined("leaf")
    /\ phase_err \/ Pending("leaf", leaf_nodes) = {}
    /\ pcBuild' = IF PhaseResult(phase_err) = "Err" THEN "err"
                  ELSE "background"
    /\ phase_err' = FALSE
    /\ UNCHANGED <<parameters, deepest_level, point_cloud, output_directory,
                   leaf_nodes, tasks, created_leaf_node_ids_rx, current_level,
                   current_level_nodes, all_nodes, point_queries>>
    /\ UNCHANGED notBuild

\* A thread takes a created leaf id and opens its image.
StartFillTask ==
    /\ pcBuild = "background"
    /\ \E n \in Startable("fill", created_leaf_node_ids_rx) :
           /\ tasks' = MapPut(tasks, TaskKey("fill", n), "running")
    /\ UNCHANGED <<parameters, deepest_level, point_cloud, output_directory,
                   leaf_nodes, phase_err, created_leaf_node_ids_rx,
                   current_level, current_level_nodes, all_nodes,
                   point_queries,
                   pcBuild>>
    /\ UNCHANGED notBuild

\* The image is mapped and saved over the file it was read from.
FinishFillSaved ==
    /\ \E n \in created_leaf_node_ids_rx :
           /\ TaskKey("fill", n) \in RunningTasks
           /\ ImagePath(n) \in DOMAIN output_directory.png
           /\ output_directory' =
                  [output_directory EXCEPT
                       !.png = MapPut(@, ImagePath(n),
                                   AssignBackground(@[ImagePath(n)],
                                       RgbaFrom(parameters
                                                    .tile_background_color)))]
           /\ tasks' = MapPut(tasks, TaskKey("fill", n), "done")
    /\ UNCHANGED <<parameters, deepest_level, point_cloud, leaf_nodes,
                   phase_err, created_leaf_node_ids_rx, current_level,
                   current_level_nodes, all_nodes, point_queries, pcBuild>>
    /\ UNCHANGED notBuild

\* image::open or image.save fails: the task returns the error.
FinishFillFails ==
    /\ \E n \in created_leaf_node_ids_rx :
           /\ TaskKey("fill", n) \in RunningTasks
           /\ tasks' = MapPut(tasks, TaskKey("fill", n), "failed")
    /\ phase_err' = TRUE
    /\ UNCHANGED <<parameters, deepest_level, point_cloud, output_directory,
                   leaf_nodes, created_leaf_node_ids_rx, current_level,
                   current_level_nodes, all_nodes, point_queries, pcBuild>>
    /\ UNCHANGED notBuild

\* try_for_each returns: on an error assign_background_color and the
\* driver return it, otherwise create_non_leaf_nodes is entered.
JoinFill ==
    /\ pcBuild = "background"
    /\ Joined("fill")
    /\ phase_err \/ Pending("fill", created_leaf_node_ids_rx) = {}
    /\ IF PhaseResult(phase_err) = "Err"
       THEN /\ pcBuild' = "err"
            /\ UNCHANGED <<current_level, current_level_nodes, all_nodes>>
       ELSE /\ pcBuild' = "levels"
            /\ current_level' = deepest_level
            /\ current_level_nodes' = created_leaf_node_ids_rx
            /\ all_nodes' = created_leaf_node_ids_rx
    /\ phase_err' = FALSE
    /\ UNCHANGED <<parameters, deepest_level, point_cloud, output_directory,
                   leaf_nodes, tasks, created_leaf_node_ids_rx,
                   point_queries>>
    /\ UNCHANGED notBuild

\* The next iteration of the loop over (root_level..deepest_level).rev():
\* the parents of the level below, and build_level starts its iterator.
NextLevel ==
    /\ pcBuild = "levels"
    /\ current_level > NodeIdLevel(parameters.root_node_id)
    /\ current_level' = current_level - 1
    /\ current_level_nodes' = ParentsOf(current_level_nodes)
    /\ pcBuild' = "build_level"
    /\ UNCHANGED <<parameters, deepest_level, point_cloud, output_directory,
                   leaf_nodes, tasks, phase_err, created_leaf_node_ids_rx,
                   all_nodes, point_queries>>
    /\ UNCHANGED notBuild

\* A thread takes a node of the level and calls build_node.
StartNodeTask ==
    /\ pcBuild = "build_level"
    /\ \E n \in Startable("node", current_level_nodes) :
           /\ tasks' = MapPut(tasks, TaskKey("node", n), "running")
    /\ UNCHANGED <<parameters, deepest_level, point_cloud, output_directory,
                   leaf_nodes, phase_err, created_leaf_node_ids_rx,
                   current_level, current_level_nodes, all_nodes,
                   point_queries,
                   pcBuild>>
    /\ UNCHANGED notBuild

\* build_node: the children on disk are read; if there is one, the parent
\* is built, resized and saved.
FinishNodeTask ==
    /\ \E n \in current_level_nodes :
           /\ TaskKey("node", n) \in RunningTasks
           /\ LET ch == ChildrenOnDisk(output_directory.png, n)
              IN  output_directory' =
                      IF PresentChildren(ch) # {}
                      THEN [output_directory EXCEPT
                                !.png = MapPut(@, ImagePath(n),
                                            Resize(BuildParent(ch,
                                                parameters
                                                    .tile_background_color),
                                                parameters.tile_size_px))]
                      ELSE output_directory
           /\ tasks' = MapPut(tasks, TaskKey("node", n), "done")
    /\ UNCHANGED <<parameters, deepest_level, point_cloud, leaf_nodes,
                   phase_err, created_leaf_node_ids_rx, current_level,
                   current_level_nodes, all_nodes, point_queries, pcBuild>>
    /\ UNCHANGED notBuild

\* image::open or save fails in build_node: the unwrap panics.
NodeTaskPanics ==
    /\ \E n \in current_level_nodes :
           /\ TaskKey("node", n) \in RunningTasks
           /\ tasks' = MapPut(tasks, TaskKey("node", n), "panicked")
    /\ phase_err' = TRUE
    /\ UNCHANGED <<parameters, deepest_level, point_cloud, output_directory,
                   leaf_nodes, created_leaf_node_ids_rx, current_level,
                   current_level_nodes, all_nodes, point_queries, pcBuild>>
    /\ UNCHANGED notBuild

\* for_each returns: all_nodes.extend(&current_level_nodes), or the panic
\* of a task is resumed in the driver.
JoinLevel ==
    /\ pcBuild = "build_level"
    /\ Joined("node")
    /\ phase_err \/ Pending("node", current_level_nodes) = {}
    /\ pcBuild' = IF phase_err THEN "panic" ELSE "levels"
    /\ all_nodes' = IF phase_err THEN all_nodes
                    ELSE all_nodes \cup current_level_nodes
    /\ UNCHANGED <<parameters, deepest_level, point_cloud, output_directory,
                   leaf_nodes, tasks, phase_err, created_leaf_node_ids_rx,
                   current_level, current_level_nodes, point_queries>>
    /\ UNCHANGED notBuild

\* The loop has ended: the metadata is written and the driver returns Ok.
WriteMeta ==
    /\ pcBuild = "levels"
    /\ current_level <= NodeIdLevel(parameters.root_node_id)
    /\ output_directory' = [output_directory EXCEPT !.meta = Some(all_nodes)]
    /\ pcBuild' = "done"
    /\ UNCHANGED <<parameters, deepest_level, point_cloud, leaf_nodes, tasks,
                   phase_err, created_leaf_node_ids_rx, current_level,
                   current_level_nodes, all_nodes, point_queries>>
    /\ UNCHANGED notBuild

\* meta.to_disk fails: the expect panics.
WriteMetaPanics ==
    /\ pcBuild = "levels"
    /\ current_level <= NodeIdLevel(parameters.root_node_id)
    /\ pcBuild' = "panic"
    /\ UNCHANGED <<parameters, deepest_level, point_cloud, output_directory,
                   leaf_nodes, tasks, phase_err, created_leaf_node_ids_rx,
                   current_level, current_level_nodes, all_nodes,
                   point_queries>>
    /\ UNCHANGED notBuild

----------------------------------------------------------------------------
(* Specifications.                                                         *)

NextNodes == EmitNode \/ ExpandNode \/ ReturnNodes

StartNodes ==
    InitNodes /\ IdlePlan /\ IdleParent /\ IdleRaster /\ IdleSplit /\ IdleBuild

SpecNodes == StartNodes /\ [][NextNodes]_vars

NextPlan == DoubleSize \/ LevelsOverflowPanic \/ ReturnPlan

StartPlan ==
    InitPlan /\ IdleNodes /\ IdleParent /\ IdleRaster /\ IdleSplit /\ IdleBuild

SpecPlan == StartPlan /\ [][NextPlan]_vars

NextParent == BuildParentReturn \/ BuildParentPanic

StartParent ==
    InitParent /\ IdleNodes /\ IdlePlan /\ IdleRaster /\ IdleSplit /\ IdleBuild

SpecParent == StartParent /\ [][NextParent]_vars

NextRaster ==
    \/ DeliverBatch \/ ProcessNextPoint \/ ReturnFromBatch \/ EndOfStream
    \/ SaveLeaf \/ SaveLeafFails \/ SkipLeaf

StartRaster ==
    InitRaster /\ IdleNodes /\ IdlePlan /\ IdleParent /\ IdleSplit /\ IdleBuild

SpecRaster == StartRaster /\ [][NextRaster]_vars

NextSplit ==
    \/ SplitDeliverBatch \/ SplitProcessNextPoint \/ SplitReturnFromBatch
    \/ SplitEndOfStream

StartSplit ==
    InitSplit /\ IdleNodes /\ IdlePlan /\ IdleParent /\ IdleRaster
        /\ IdleBuild

SpecSplit == StartSplit /\ [][NextSplit]_vars

NextBuild ==
    \/ CreateDir \/ EnumerateLeaves \/ RootOutsidePanic
    \/ StartLeafTask \/ FinishLeafNone \/ FinishLeafSaved
    \/ FinishLeafSaveFails \/ JoinLeaves
    \/ StartFillTask \/ FinishFillSaved \/ FinishFillFails \/ JoinFill
    \/ NextLevel \/ StartNodeTask \/ FinishNodeTask \/ NodeTaskPanics
    \/ JoinLevel \/ WriteMeta \/ WriteMetaPanics

StartBuild ==
    InitBuild /\ IdleNodes /\ IdlePlan /\ IdleParent /\ IdleRaster
        /\ IdleSplit

SpecBuild == StartBuild /\ [][NextBuild]_vars

----------------------------------------------------------------------------
(* Claims.                                                                 *)

Distinct(s) == \A i, j \in 1..Len(s) : s[i] = s[j] => i = j

\* C1: when get_nodes_at_level(root, L) returns (L >= root.level), the
\* result holds exactly 4^(L - root.level) pairwise distinct nodes, each at
\* level L and each a descendant of root.
C1_LeafCount ==
    pcNodes = "done" =>
        /\ Len(nodes_at_level) = Pow(4, level - NodeLevel(root_node))
        /\ Distinct(nodes_at_level)
        /\ \A n \in Range(nodes_at_level) :
               NodeLevel(n) = level /\ IsPrefix(root_node.id, n.id)

\* A traversal that returned the 16 grandchildren of a root.
C1_Witness ==
    /\ pcNodes = "done"
    /\ level - NodeLevel(root_node) = 2
    /\ Len(nodes_at_level) = 16

\* The largest of the two horizontal edges of the bounding box.
MaxEdge(d) == IF FLt(d.x, d.y) THEN d.y ELSE d.x

\* C2: the planner returns a square anchored at (bbox.min.x, bbox.min.y)
\* whose side is tile_m * 2^levels, where levels is the smallest
\* non-negative integer such that tile_m * 2^levels >= max(diag.x, diag.y).
C2_SmallestCover ==
    pcPlan = "done" =>
        LET tile_m == TileSizeM(tile_size_px, pixel_size_m)
            side   == FScale(tile_m, planned.levels)
        IN  /\ planned.rect.min = bbox.min
            /\ planned.rect.edge = side
            /\ FLe(MaxEdge(bbox.diag), side)
            /\ planned.levels > 0 =>
                   FLt(FScale(tile_m, planned.levels - 1), MaxEdge(bbox.diag))

\* The quadrant of each child index as the claim gives it, in units of N.
C3_Quadrant(id) ==
    CASE id = 1 -> <<0, 0>>
      [] id = 0 -> <<0, 1>>
      [] id = 3 -> <<1, 0>>
      [] id = 2 -> <<1, 1>>

C4_NoBatchNoTile ==
    (pcRaster \in {"rasterized", "done"} /\ batches_delivered = 0) =>
        /\ image = NoneV
        /\ leaf_id \notin DOMAIN files
        /\ leaf_id \notin created_leaf_node_ids
        /\ pcRaster = "done" => task_result = "Ok"

\* A leaf task that ended without having seen a batch.
C4_Witness == pcRaster = "done" /\ batches_delivered = 0

\* The entry of a column map for a column and a bin, if there is one.
EntryOf(per_column_data, c, b) ==
    IF c \in DOMAIN per_column_data /\ b \in DOMAIN per_column_data[c]
    THEN Some(per_column_data[c][b])
    ELSE NoneV

\* All (column, bin) pairs of two column maps.
EntriesOf(m1, m2) ==
    UNION {{<<c, b>> : b \in DOMAIN m1[c]} : c \in DOMAIN m1}
    \cup UNION {{<<c, b>> : b \in DOMAIN m2[c]} : c \in DOMAIN m2}

\* C5: in the Intensity strategy an iteration that meets a negative
\* intensity returns from process_discretized_point_data at once and leaves
\* everything accumulated so far (from this batch and from earlier ones) as
\* it is; an iteration on a non-negative intensity adds the intensity to the
\* sum and one to the count of the point's column and bin, touches nothing
\* else, and goes on with the next point; this holds in every batch.
C5_NegativeAbortsBatch ==
    [][(/\ coloring_strategy_kind.name = "colored_with_intensity"
        /\ pcRaster = "process"
        /\ idx <= Len(points_batch)) =>
          LET point == points_batch[idx]
              c     == Col(discretized_locations[idx])
              b     == BinOf(coloring_strategy_kind.binning, point)
              old   == EntryOf(coloring_strategy, c, b)
              new   == EntryOf(coloring_strategy', c, b)
          IN  IF point.intensity < 0
              THEN /\ coloring_strategy' = coloring_strategy
                   /\ pcRaster' = "stream"
              ELSE /\ new.some
                   /\ new.v.count = (IF old.some THEN old.v.count ELSE 0) + 1
                   /\ new.v.sum =
                          (IF old.some THEN old.v.sum ELSE 0) + point.intensity
                   /\ \A e \in EntriesOf(coloring_strategy,
                                         coloring_strategy') :
                          e # <<c, b>> =>
                              EntryOf(coloring_strategy', e[1], e[2]) =
                                  EntryOf(coloring_strategy, e[1], e[2])
                   /\ pcRaster' = "process"
                   /\ idx' = idx + 1
      ]_vars

\* The second batch returned on its second point, which is negative, after
\* its first point and the first batch had been accumulated.
C5_Witness ==
    /\ coloring_strategy_kind.name = "colored_with_intensity"
    /\ pcRaster = "stream"
    /\ batches_delivered = 2
    /\ Len(points_batch) = 2
    /\ idx = 2
    /\ points_batch[1].intensity >= 0
    /\ points_batch[2].intensity < 0
    /\ \E c \in DOMAIN coloring_strategy : \E b \in DOMAIN coloring_strategy[c] :
           coloring_strategy[c][b].count >= 2

\* The scenario of C6: Intensity with min 0 and max 10, and a single batch
\* with a single point, in column (2, 2), of intensity -1.
C6_Scenario ==
    /\ coloring_strategy_kind.name = "colored_with_intensity"
    /\ coloring_strategy_kind.min = 0
    /\ coloring_strategy_kind.max = 10
    /\ pcRaster \in {"rasterized", "done"}
    /\ batches_delivered = 1
    /\ Len(points_batch) = 1
    /\ points_batch[1].intensity = -1
    /\ Col(discretized_locations[1]) = <<2, 2>>

AllTransparent(img) ==
    \A p \in DOMAIN img.px : img.px[p] = RgbaFrom(TRANSPARENT_U8)

\* C6 as claimed: in the scenario the strategy's state is not modified, the
\* pixel stays transparent and no leaf file is produced.
C6_NoLeafFile ==
    C6_Scenario =>
        /\ coloring_strategy = EmptyMap
        /\ GetPixelColor(coloring_strategy_kind, coloring_strategy, 2, 2)
               = NoneV
        /\ leaf_id \notin DOMAIN files

\* C6 as amended: in the scenario the strategy's state is not modified and
\* the pixel stays transparent, but a batch was seen, so xray_from_points
\* returns an image, all of it transparent, and unless saving fails the
\* leaf file is written with that image and the leaf id is emitted.
C6_TransparentLeafFile ==
    C6_Scenario =>
        /\ coloring_strategy = EmptyMap
        /\ GetPixelColor(coloring_strategy_kind, coloring_strategy, 2, 2)
               = NoneV
        /\ image.some
        /\ AllTransparent(image.v)
        /\ (pcRaster = "done" /\ task_result = "Ok") =>
               /\ leaf_id \in DOMAIN files
               /\ files[leaf_id] = image.v
               /\ leaf_id \in created_leaf_node_ids

\* The scenario, with the leaf file written.
C6_Witness ==
    C6_Scenario /\ pcRaster = "done" /\ leaf_id \in DOMAIN files

\* A position inside the box, its boundary included.
InBox(pos, box) ==
    /\ box.min.x <= pos.x /\ pos.x <= box.max.x
    /\ box.min.y <= pos.y /\ pos.y <= box.max.y
    /\ box.min.z <= pos.z /\ pos.z <= box.max.z

\* C7: every position inside the tile's bounding box, boundaries included,
\* is discretized to 0 <= x < width, 0 <= y < height, 0 <= z < 1024, so
\* every key of the strategy's column map is a pixel of the tile.
C7_PixelRange ==
    /\ \A i \in 1..Len(discretized_locations) :
           InBox(points_batch[i].position, tile_bbox) =>
               /\ discretized_locations[i].x < image_size[1]
               /\ discretized_locations[i].y < image_size[2]
               /\ discretized_locations[i].z < NUM_Z_BUCKETS
    /\ DOMAIN coloring_strategy \subseteq Pixels(image_size[1], image_size[2])

\* Both calls have returned.
BothDone == \A r \in Runs : runs[r].pc = "done"

\* The two calls ended with the same column map and the same colour for
\* every pixel of the tile.
SameRasterization ==
    /\ runs[1].coloring_strategy = runs[2].coloring_strategy
    /\ \A p \in Pixels(TilePx, TilePx) :
           GetPixelColor(split_kind, runs[1].coloring_strategy, p[1], p[2])
               = GetPixelColor(split_kind, runs[2].coloring_strategy,
                               p[1], p[2])

\* C8: for the X-ray, Color and HeightStddev strategies, two ingestions of
\* the same sequence of points, cut into batches in two ways, end with the
\* same accumulated column state and the same get_pixel_color for every
\* pixel.
C8_SplitIndependent ==
    (split_kind.name # "colored_with_intensity" /\ BothDone)
        => SameRasterization

\* A sequence of colored points in two bins was ingested as one batch by
\* one call and as one batch per point by the other.
C8_Witness ==
    /\ BothDone
    /\ split_kind.name = "colored"
    /\ Len(source_points) = MaxSplitPoints
    /\ \E i, j \in 1..Len(source_points) :
           source_points[i].color # source_points[j].color
    /\ {runs[1].batches_delivered, runs[2].batches_delivered}
           = {1, MaxSplitPoints}
    /\ runs[1].coloring_strategy # EmptyMap

\* C9: for the Intensity strategy, two ingestions of the same sequence of
\* points of any intensities, negative ones included, cut into batches in
\* two ways, end with the same per-column, per-bin sums and counts and the
\* same pixel for every (x, y).
C9_IntensitySplitIndependent ==
    (split_kind.name = "colored_with_intensity" /\ BothDone)
        => SameRasterization

XRayGrayOf(z_buckets, c) == XRayPixelColor(z_buckets, c[1], c[2]).v.red

\* C10: in the X-ray strategy the gray value of a column never increases
\* when a further point is ingested, and is unchanged when the point's z
\* bucket is already in the column; a column with one z bucket has the
\* value 255 and one with all 1024 has the value 0.
C10_MonotoneDarkness ==
    [][coloring_strategy_kind.name = "xray" =>
          /\ \A c \in DOMAIN coloring_strategy :
                 /\ c \in DOMAIN coloring_strategy'
                 /\ LET before == XRayGrayOf(coloring_strategy, c)
                        after == XRayGrayOf(coloring_strategy', c)
                    IN  /\ after <= before
                        /\ coloring_strategy'[c] = coloring_strategy[c] =>
                               after = before
          /\ \A c \in DOMAIN coloring_strategy' :
                 /\ Cardinality(coloring_strategy'[c]) = 1 =>
                        XRayGrayOf(coloring_strategy', c) = 255
                 /\ Cardinality(coloring_strategy'[c]) = NUM_Z_BUCKETS =>
                        XRayGrayOf(coloring_strategy', c) = 0
      ]_vars

\* A column that holds all 1024 z buckets, and is black.
C10_Witness ==
    /\ coloring_strategy_kind.name = "xray"
    /\ \E c \in DOMAIN coloring_strategy :
           /\ Cardinality(coloring_strategy[c]) = NUM_Z_BUCKETS
           /\ XRayGrayOf(coloring_strategy, c) = 0

\* The scenario of C11: X-ray, the leaf with bbox [(0,0,0),(1,1,1)] (in
\* metres), and a single batch with the single point (0.5, 0.5, 0.5).
C11_Scenario ==
    /\ coloring_strategy_kind.name = "xray"
    /\ leaf_id = <<0>>
    /\ pcRaster \in {"rasterized", "done"}
    /\ batches_delivered = 1
    /\ points_batch = <<Point(Centre(tile_bbox), 0, NoColor, 0)>>

\* The pixels of an image that are not fully transparent.
NonTransparent(img) == {p \in DOMAIN img.px : img.px[p][4] # 0}

\* C11 as stated: the image has exactly one non-transparent pixel, at
\* column 2, row 1, and its gray value is 255.
C11_SinglePixelRow1 ==
    C11_Scenario =>
        /\ image.some
        /\ NonTransparent(image.v) = {<<2, 1>>}
        /\ image.v.px[<<2, 1>>] = <<255, 255, 255, 255>>

\* C11 amended: the image has exactly one non-transparent pixel, at
\* column 2, row 2 (y = floor((1 - 0.5) * tile size)), and its gray value
\* is 255.
C11_SinglePixelRow2 ==
    C11_Scenario =>
        /\ image.some
        /\ NonTransparent(image.v) = {<<2, 2>>}
        /\ image.v.px[<<2, 2>>] = <<255, 255, 255, 255>>

\* The single point has been rasterized and the leaf file written.
C11_Witness ==
    /\ C11_Scenario
    /\ pcRaster = "done"
    /\ leaf_id \in DOMAIN files
    /\ discretized_locations = <<[x |-> 2, y |-> 2, z |-> NUM_Z_BUCKETS \div 2]>>

\* The state of the task of a phase for an item.
TaskState(kind, id) ==
    IF TaskKey(kind, id) \in DOMAIN tasks THEN tasks[TaskKey(kind, id)]
    ELSE "pending"

\* The tasks of a phase that a thread has taken.
Started(kind) == {k \in DOMAIN tasks : k[1] = kind}

Finished(k) == tasks[k] \in {"done", "failed", "panicked"}

OnDisk(id) == ImagePath(id) \in DOMAIN output_directory.png

\* C12: no background-fill task starts before every leaf task has
\* finished, no non-leaf node is built before every background-fill task
\* has finished, no node of level L is built before every node of level
\* L+1 of the build has been written, and the metadata is written only
\* after the root level has been built.
C12_PhasesNeverOverlap ==
    /\ Started("fill") # {} =>
           \A n \in leaf_nodes : TaskState("leaf", n) \in {"done", "failed"}
    /\ Started("node") # {} =>
           \A n \in created_leaf_node_ids_rx :
               TaskState("fill", n) \in {"done", "failed"}
    /\ \A k \in Started("node") :
           /\ \A m \in Started("node") :
                  Len(m[2]) = Len(k[2]) + 1 => tasks[m] = "done"
           /\ \A m \in all_nodes : Len(m) = Len(k[2]) + 1 => OnDisk(m)
    /\ output_directory.meta.some =>
           /\ \A k \in DOMAIN tasks : Finished(k)
           /\ current_level <= NodeIdLevel(parameters.root_node_id)
           /\ \A n \in current_level_nodes : OnDisk(n)

\* A build over two non-leaf levels has written its metadata.
C12_Witness ==
    /\ pcBuild = "done"
    /\ output_directory.meta.some
    /\ deepest_level = NodeIdLevel(parameters.root_node_id) + 2
    /\ Cardinality(Started("fill")) >= 2
    /\ \E k, m \in Started("node") : Len(k[2]) = Len(m[2]) + 1

\* C13: once a task of the leaf phase or of the background-fill phase has
\* failed, no later phase is started, no non-leaf tile is built and no
\* metadata is written; the driver stays in the phase until it returns the
\* error, and the tiles written by tasks that succeeded stay on disk.
C13_FailFast ==
    \A k \in DOMAIN tasks :
        (k[1] \in {"leaf", "fill"} /\ tasks[k] = "failed") =>
            /\ pcBuild \in {IF k[1] = "leaf" THEN "leaves" ELSE "background",
                            "err"}
            /\ k[1] = "leaf" => Started("fill") = {}
            /\ Started("node") = {}
            /\ ~output_directory.meta.some
            /\ DOMAIN output_directory.png
                   \subseteq {ImagePath(n) : n \in leaf_nodes}
            /\ \A n \in leaf_nodes \cap point_cloud :
                   TaskState("leaf", n) = "done" => OnDisk(n)

\* The driver has returned the error of a failed task while the tile of
\* a task that succeeded is on disk.
C13_Witness ==
    /\ pcBuild = "err"
    /\ \E k \in DOMAIN tasks : tasks[k] = "failed"
    /\ \E n \in leaf_nodes : TaskState("leaf", n) = "done" /\ OnDisk(n)

\* A pixel with the channels of a colour and full opacity.
Opaque(c) == <<c.red, c.green, c.blue, 255>>

\* C14 as stated: after the background-fill task of a leaf, each pixel
\* whose alpha was below 128 is the configured background colour made
\* fully opaque, each other pixel is unchanged, and no pixel has alpha
\* below 128.
C14_OpaqueBackground ==
    \A n \in created_leaf_node_ids_rx :
        TaskState("fill", n) = "done" =>
            LET before == LeafImage(n, parameters.tile_size_px)
                after == output_directory.png[ImagePath(n)]
            IN  \A p \in DOMAIN before.px :
                    /\ before.px[p][4] < 128 =>
                           after.px[p] =
                               Opaque(parameters.tile_background_color)
                    /\ before.px[p][4] >= 128 => after.px[p] = before.px[p]
                    /\ after.px[p][4] >= 128

\* C14 amended: after the background-fill task of a leaf, each pixel whose
\* alpha was below 128 is the configured background colour as it is
\* (opaque white, or transparent with alpha 0), each other pixel is
\* unchanged, and with the white background no pixel has alpha below 128.
C14_ConfiguredBackground ==
    \A n \in created_leaf_node_ids_rx :
        TaskState("fill", n) = "done" =>
            LET before == LeafImage(n, parameters.tile_size_px)
                after == output_directory.png[ImagePath(n)]
            IN  \A p \in DOMAIN before.px :
                    /\ before.px[p][4] < 128 =>
                           after.px[p] =
                               RgbaFrom(parameters.tile_background_color)
                    /\ before.px[p][4] >= 128 => after.px[p] = before.px[p]
                    /\ parameters.tile_background_color = WHITE_U8 =>
                           after.px[p][4] >= 128

\* The background-fill pass has run over a leaf with a transparent pixel
\* and over a leaf with an opaque pixel.
C14_Witness ==
    /\ pcBuild = "levels"
    /\ \E n, m \in created_leaf_node_ids_rx :
           /\ TaskState("fill", n) = "done"
           /\ TaskState("fill", m) = "done"
           /\ \E p \in Pixels(parameters.tile_size_px,
                              parameters.tile_size_px) :
                  LeafImage(n, parameters.tile_size_px).px[p][4] < 128
           /\ \E p \in Pixels(parameters.tile_size_px,
                              parameters.tile_size_px) :
                  LeafImage(m, parameters.tile_size_px).px[p][4] >= 128

RootOutside == NodeIdLevel(parameters.root_node_id) > deepest_level

\* C15 as stated: when the root node's level is greater than the deepest
\* level, no step of the build enumerates a leaf, starts a task, issues a
\* point query or creates or writes anything on the filesystem.
C15_NothingCreated ==
    [][RootOutside =>
           /\ leaf_nodes' = {}
           /\ tasks' = EmptyMap
           /\ point_queries' = {}
           /\ output_directory' = output_directory
           /\ pcBuild' \in {"planned", "panic"}
      ]_vars

\* C15 amended: when the root node's level is greater than the deepest
\* level, no step of the build enumerates a leaf, starts a task, issues a
\* point query or writes a tile or the metadata; only the output directory
\* is created, before the build fails.
C15_OnlyDirectoryCreated ==
    [][RootOutside =>
           /\ leaf_nodes' = {}
           /\ tasks' = EmptyMap
           /\ point_queries' = {}
           /\ output_directory'.png = output_directory.png
           /\ output_directory'.meta = output_directory.meta
           /\ pcBuild' \in {"planned", "panic"}
      ]_vars

\* The build has failed on a root node below the deepest level.
C15_Witness ==
    /\ RootOutside
    /\ pcBuild = "panic"
    /\ output_directory = [NoDisk EXCEPT !.exists = TRUE]

\* The files a task writes and the files it reads.
Writes(k) == {ImagePath(k[2])}

Reads(k) ==
    CASE k[1] = "leaf" -> {}
      [] k[1] = "fill" -> {ImagePath(k[2])}
      [] OTHER -> {ImagePath(GetChildId(k[2], i)) : i \in ChildIndices}

\* C16: no two tasks that run at the same time write the same tile file,
\* none reads a file the other writes, and a step changes only the file of
\* the task that finishes in it: a leaf task and a background-fill task
\* touch their own leaf's file, a node task writes its own file and reads
\* files of the level below.
C16_DisjointFileAccess ==
    [][/\ \A k1, k2 \in RunningTasks :
              k1 # k2 =>
                  Writes(k1) \cap (Writes(k2) \cup Reads(k2)) = {}
       /\ \A path \in DOMAIN output_directory'.png :
              (\/ path \notin DOMAIN output_directory.png
               \/ output_directory'.png[path] # output_directory.png[path])
                  => \E k \in RunningTasks :
                         /\ tasks'[k] # "running"
                         /\ path \in Writes(k)
       /\ DOMAIN output_directory.png \subseteq DOMAIN output_directory'.png
      ]_vars

\* Two node tasks of one level run at the same time.
C16_Witness ==
    \E k1, k2 \in RunningTasks :
        k1 # k2 /\ k1[1] = "node" /\ k2[1] = "node"

\* The leaves with an image, and their ancestors down to the root node's
\* level.
WithAncestors(ids, root_level) ==
    UNION {{SubSeq(n, 1, l) : l \in root_level..Len(n)} : n \in ids}

\* C17: when the build succeeds on an output directory that was empty,
\* the metadata records exactly the leaves whose rasterization returned
\* an image and their ancestors down to the root node's level, and the PNG
\* files on disk are exactly one per recorded node.
C17_MetadataNodeSet ==
    pcBuild = "done" =>
        /\ output_directory.meta.some
        /\ output_directory.meta.v =
               WithAncestors(leaf_nodes \cap point_cloud,
                             NodeIdLevel(parameters.root_node_id))
        /\ DOMAIN output_directory.png =
               {ImagePath(n) : n \in output_directory.meta.v}

\* A successful build over two non-leaf levels with a node that has no
\* child on disk.
C17_Witness ==
    /\ pcBuild = "done"
    /\ deepest_level = NodeIdLevel(parameters.root_node_id) + 2
    /\ Cardinality(leaf_nodes \cap point_cloud) = 2
    /\ Cardinality(output_directory.meta.v) = 5
    /\ \E n \in NodesAtLevel(parameters.root_node_id, deepest_level - 1) :
           ~OnDisk(n)

\* C18: the level counter of the planner never overflows its 8 bits,
\* neither by wrapping nor by a panic of the increment, and with a bounding
\* box of zero horizontal extent the planner returns 0 levels and a square
\* of side tile_m.
C18_CounterNeverOverflows ==
    /\ pcPlan # "panic"
    /\ (pcPlan = "loop" /\ NeedsDoubling(cur_size, bbox.diag)) =>
           levels + 1 < U8Modulus
    /\ (pcPlan = "done" /\ bbox.diag = [x |-> FZero, y |-> FZero]) =>
           /\ planned.levels = 0
           /\ planned.rect.edge = TileSizeM(tile_size_px, pixel_size_m)

====
